---- MODULE Spec2Model ----
(***************************************************************************)
(* Model of pants/backend/shell/target_types.py: the shebang detector,     *)
(* the timeout fields, the shell target classes and the two target         *)
(* generators.                                                             *)
(*                                                                         *)
(* Byte strings and file names are sequences of one-character strings, so  *)
(* that the regular expression and the glob patterns are matched character *)
(* by character.  Python's Optional[T] is a sequence of length at most     *)
(* one: None is << >> and a present value v is << v >>.                    *)
(***************************************************************************)
EXTENDS Integers, Sequences, FiniteSets

VARIABLES request, ret

vars == <<request, ret>>

------------------------------------------------------------------------------
(* Optional values *)

None == << >>

Some(v) == << v >>

IsNone(o) == Len(o) = 0

Get(o) == o[1]

Range(s) == { s[i] : i \in 1..Len(s) }

------------------------------------------------------------------------------
(* Shunit2Shell, lines 53-75 *)

\* The enumeration: member name -> value.
Shunit2Shell ==
    [ sh    |-> <<"s","h">>,
      bash  |-> <<"b","a","s","h">>,
      dash  |-> <<"d","a","s","h">>,
      ksh   |-> <<"k","s","h">>,
      pdksh |-> <<"p","d","k","s","h">>,
      zsh   |-> <<"z","s","h">> ]

\* Shunit2Shell(value): the member whose value it is, or ValueError.
Shunit2Shell_call(value) ==
    LET hits == { m \in DOMAIN Shunit2Shell : Shunit2Shell[m] = value }
    IN  IF hits = {} THEN [raised |-> "ValueError"]
        ELSE [raised |-> "", value |-> CHOOSE m \in hits : TRUE]

\* The bytes \w matches in a bytes pattern: ASCII letters, digits, underscore.
WordChar ==
    { "a","b","d","e","f","h","i","k","l","n","o","p","r","s","u","v","z",
      "_","3" }

\* A byte above 0x7f, which bytes.decode() rejects.
NonAscii == "\\xe9"

PathChar == WordChar \cup {"/"}

\* Length of the longest run of bytes of class cls in s from position i on.
RECURSIVE RunLen(_, _, _)
RunLen(s, i, cls) ==
    IF i <= Len(s) /\ s[i] \in cls THEN 1 + RunLen(s, i + 1, cls) ELSE 0

\* bytes.splitlines(): split at \n, \r and \r\n; no empty last line.
RECURSIVE splitlines(_)
splitlines(b) ==
    IF Len(b) = 0 THEN << >>
    ELSE LET n    == RunLen(b, 1, { c \in Range(b) : c \notin {"\n", "\r"} })
             term == IF n = Len(b) THEN 0
                     ELSE IF b[n + 1] = "\r" /\ n + 2 <= Len(b) /\ b[n + 2] = "\n"
                          THEN 2 ELSE 1
         IN  << SubSeq(b, 1, n) >> \o splitlines(SubSeq(b, n + term + 1, Len(b)))

\* re.match(rb"^#! *[/\w]*/(?P<program>\w+) *(?P<arg>\w*)", line): the groups
\* of the first match in backtracking order, every quantifier greedy.
re_match(line) ==
    IF ~(Len(line) >= 2 /\ line[1] = "#" /\ line[2] = "!") THEN None
    ELSE
      LET \* " *" then "[/\w]*" then "/" then the first byte of "\w+"
          ways == { w \in (0..RunLen(line, 3, {" "})) \X (0..Len(line)) :
                      /\ w[2] <= RunLen(line, 3 + w[1], PathChar)
                      /\ 3 + w[1] + w[2] <= Len(line)
                      /\ line[3 + w[1] + w[2]] = "/"
                      /\ RunLen(line, 4 + w[1] + w[2], WordChar) >= 1 }
      IN  IF ways = {} THEN None
          ELSE
            LET sp   == CHOOSE a \in { w[1] : w \in ways } :
                          \A w \in ways : w[1] <= a
                pre  == CHOOSE p \in { w[2] : w \in { x \in ways : x[1] = sp } } :
                          \A w \in ways : w[1] = sp => w[2] <= p
                ps   == 4 + sp + pre
                pl   == RunLen(line, ps, WordChar)
                gap  == RunLen(line, ps + pl, {" "})
                as   == ps + pl + gap
                al   == RunLen(line, as, WordChar)
            IN  Some([ program |-> SubSeq(line, ps, ps + pl - 1),
                       arg     |-> SubSeq(line, as, as + al - 1) ])

\* bytes.decode(): UTF-8; ASCII bytes map to themselves, a lone high byte raises
\* UnicodeDecodeError, which is a ValueError.
decode(b) ==
    IF NonAscii \in Range(b) THEN [raised |-> "ValueError"]
    ELSE [raised |-> "", value |-> b]

\* parse_shebang after its guard, without the substitution for `env`.
parse_shebang_body_keeps_env(shebang) ==
    LET lines == splitlines(shebang) IN
    IF Len(lines) = 0 THEN [status |-> "raised", exc |-> "IndexError"]
    ELSE
      LET matches == re_match(lines[1]) IN
      IF IsNone(matches) THEN [status |-> "ok", value |-> None]
      ELSE
        LET text == decode(Get(matches).program)
        IN  IF text.raised = "ValueError" THEN [status |-> "ok", value |-> None]
            ELSE LET member == Shunit2Shell_call(text.value)
                 IN  IF member.raised = "ValueError"
                     THEN [status |-> "ok", value |-> None]
                     ELSE [status |-> "ok", value |-> Some(member.value)]

\* parse_shebang after its guard: lines 65-75.
parse_shebang_body(shebang) ==
    LET lines == splitlines(shebang) IN
    IF Len(lines) = 0 THEN [status |-> "raised", exc |-> "IndexError"]
    ELSE
      LET matches == re_match(lines[1]) IN
      IF IsNone(matches) THEN [status |-> "ok", value |-> None]
      ELSE
        LET program == IF Get(matches).program = <<"e","n","v">>
                       THEN Get(matches).arg ELSE Get(matches).program
            text    == decode(program)
        IN  IF text.raised = "ValueError" THEN [status |-> "ok", value |-> None]
            ELSE LET member == Shunit2Shell_call(text.value)
                 IN  IF member.raised = "ValueError"
                     THEN [status |-> "ok", value |-> None]
                     ELSE [status |-> "ok", value |-> Some(member.value)]

\* The guard "if not shebang" left out.
parse_shebang_unguarded(shebang) == parse_shebang_body(shebang)

\* Shunit2Shell.parse_shebang
parse_shebang(shebang) ==
    IF Len(shebang) = 0 THEN [status |-> "ok", value |-> None]
    ELSE parse_shebang_body(shebang)

------------------------------------------------------------------------------
(* The field framework of pants.engine.target, as far as the classes of    *)
(* this file use it.                                                        *)

Ok(v) == [status |-> "ok", value |-> v]

\* InvalidFieldException; its message names the field, the target's address
\* and, when it is about a value, the value.
InvalidFieldException(alias, address, value) ==
    [status |-> "raised",
     exc |-> [type |-> "InvalidFieldException", field |-> alias,
              address |-> address, value |-> value]]

\* A field class: its alias, its kind of value, and the class attributes
\* `required`, `default` and `valid_choices`.
FieldClass(name, alias, kind, required, default, choices) ==
    [name |-> name, alias |-> alias, kind |-> kind, required |-> required,
     default |-> default, valid_choices |-> choices]

IsEmptyValue(kind, v) ==
    CASE kind = "string"   -> v = ""
      [] kind = "chars"    -> Len(v) = 0
      [] kind = "sequence" -> Len(v) = 0
      [] OTHER             -> FALSE

\* Field.compute_value: a required field must be given and not empty; an
\* absent optional field takes the class's default.
Field_compute_value(cls, raw_value, address) ==
    IF IsNone(raw_value)
    THEN IF cls.required THEN InvalidFieldException(cls.alias, address, None)
         ELSE Ok(cls.default)
    ELSE IF cls.required /\ IsEmptyValue(cls.kind, Get(raw_value))
         THEN InvalidFieldException(cls.alias, address, raw_value)
         ELSE Ok(raw_value)

\* StringField.compute_value: a value outside valid_choices is rejected.
StringField_compute_value(cls, raw_value, address) ==
    LET r == Field_compute_value(cls, raw_value, address) IN
    IF r.status = "ok" /\ ~IsNone(r.value) /\ ~IsNone(cls.valid_choices)
       /\ Get(r.value) \notin Get(cls.valid_choices)
    THEN InvalidFieldException(cls.alias, address, r.value)
    ELSE r

\* IntField.compute_value
IntField_compute_value(cls, raw_value, address) ==
    Field_compute_value(cls, raw_value, address)

------------------------------------------------------------------------------
(* Field classes of this file *)

ShellCommandTimeoutField_default == 30

Shunit2TestDependenciesField ==
    FieldClass("Shunit2TestDependenciesField", "dependencies", "sequence",
               FALSE, None, None)

Shunit2TestTimeoutField ==
    FieldClass("Shunit2TestTimeoutField", "timeout", "int", FALSE, None, None)

Shunit2TestSourceField ==
    FieldClass("Shunit2TestSourceField", "source", "chars", TRUE, None, None)

Shunit2ShellField ==
    FieldClass("Shunit2ShellField", "shell", "chars", FALSE, None,
               Some({ Shunit2Shell[m] : m \in DOMAIN Shunit2Shell }))

ShellSourceField ==
    FieldClass("ShellSourceField", "source", "chars", TRUE, None, None)

ShellCommandCommandField ==
    FieldClass("ShellCommandCommandField", "command", "string", TRUE, None, None)

ShellCommandOutputsField ==
    FieldClass("ShellCommandOutputsField", "outputs", "sequence", FALSE, None, None)

ShellCommandSourcesField ==
    FieldClass("ShellCommandSourcesField", "_sources", "sequence", FALSE, None, None)

\* ShellCommandTimeoutField without its `default = 30`.
ShellCommandTimeoutField_no_default ==
    FieldClass("ShellCommandTimeoutField", "timeout", "int", FALSE, None, None)

ShellCommandTimeoutField ==
    FieldClass("ShellCommandTimeoutField", "timeout", "int", FALSE,
               Some(ShellCommandTimeoutField_default), None)

\* ShellCommandToolsField without `required = True`.
ShellCommandToolsField_optional ==
    FieldClass("ShellCommandToolsField", "tools", "sequence", FALSE, None, None)

ShellCommandToolsField ==
    FieldClass("ShellCommandToolsField", "tools", "sequence", TRUE, None, None)

ShellCommandLogOutputField ==
    FieldClass("ShellCommandLogOutputField", "log_output", "bool", FALSE,
               Some(FALSE), None)

ShellCommandRunWorkdirField ==
    FieldClass("ShellCommandRunWorkdirField", "workdir", "string", FALSE,
               Some("."), None)

\* Imported field classes.
Dependencies ==
    FieldClass("Dependencies", "dependencies", "sequence", FALSE, None, None)

RuntimePackageDependenciesField ==
    FieldClass("RuntimePackageDependenciesField", "runtime_package_dependencies",
               "sequence", FALSE, None, None)

COMMON_TARGET_FIELDS ==
    << FieldClass("Tags", "tags", "sequence", FALSE, None, None),
       FieldClass("DescriptionField", "description", "string", FALSE, None, None) >>

\* Shunit2TestTimeoutField.compute_value with the comparison written `value < 0`.
Shunit2TestTimeoutField_compute_value_lt0(raw_value, address) ==
    LET value == IntField_compute_value(Shunit2TestTimeoutField, raw_value, address) IN
    IF value.status = "ok" /\ ~IsNone(value.value) /\ Get(value.value) < 0
    THEN InvalidFieldException("timeout", address, value.value)
    ELSE value

\* Shunit2TestTimeoutField.compute_value with `value is not None` left out:
\* None < 1 is a TypeError.
Shunit2TestTimeoutField_compute_value_unchecked_none(raw_value, address) ==
    LET value == IntField_compute_value(Shunit2TestTimeoutField, raw_value, address) IN
    IF value.status = "ok" /\ IsNone(value.value)
    THEN [status |-> "raised",
          exc |-> [type |-> "TypeError", field |-> "timeout",
                   address |-> address, value |-> None]]
    ELSE IF value.status = "ok" /\ Get(value.value) < 1
    THEN InvalidFieldException("timeout", address, value.value)
    ELSE value

\* Shunit2TestTimeoutField.compute_value
Shunit2TestTimeoutField_compute_value(raw_value, address) ==
    LET value == IntField_compute_value(Shunit2TestTimeoutField, raw_value, address) IN
    IF value.status = "ok" /\ ~IsNone(value.value) /\ Get(value.value) < 1
    THEN InvalidFieldException("timeout", address, value.value)
    ELSE value

\* ShellCommandTimeoutField.compute_value
ShellCommandTimeoutField_compute_value(raw_value, address) ==
    LET value == IntField_compute_value(ShellCommandTimeoutField, raw_value, address) IN
    IF value.status = "ok" /\ ~IsNone(value.value) /\ Get(value.value) < 1
    THEN InvalidFieldException("timeout", address, value.value)
    ELSE value

\* cls.compute_value(raw_value, address), by the class's own override.
compute_value(cls, raw_value, address) ==
    CASE cls.name = "Shunit2TestTimeoutField" ->
           Shunit2TestTimeoutField_compute_value(raw_value, address)
      [] cls.name = "ShellCommandTimeoutField" ->
           ShellCommandTimeoutField_compute_value(raw_value, address)
      [] cls.kind \in {"string", "chars"} ->
           StringField_compute_value(cls, raw_value, address)
      [] OTHER -> Field_compute_value(cls, raw_value, address)

------------------------------------------------------------------------------
(* Target classes *)

\* Shunit2TestsGeneratorSourcesField.default
Shunit2TestsGeneratorSourcesField_default ==
    << <<"*","_","t","e","s","t",".","s","h">>,
       <<"t","e","s","t","_","*",".","s","h">>,
       <<"t","e","s","t","s",".","s","h">> >>

Shunit2TestsGeneratorSourcesField ==
    FieldClass("Shunit2TestsGeneratorSourcesField", "sources", "sequence", FALSE,
               Some(Shunit2TestsGeneratorSourcesField_default), None)

\* ("*.sh",) + the test patterns themselves, the "!" forgotten.
ShellSourcesGeneratingSourcesField_default_unnegated ==
    << <<"*",".","s","h">> >> \o Shunit2TestsGeneratorSourcesField_default

\* ShellSourcesGeneratingSourcesField.default
ShellSourcesGeneratingSourcesField_default ==
    << <<"*",".","s","h">> >>
      \o [ i \in 1..Len(Shunit2TestsGeneratorSourcesField_default) |->
             <<"!">> \o Shunit2TestsGeneratorSourcesField_default[i] ]

ShellSourcesGeneratingSourcesField ==
    FieldClass("ShellSourcesGeneratingSourcesField", "sources", "sequence", FALSE,
               Some(ShellSourcesGeneratingSourcesField_default), None)

TargetClass(alias, core_fields) == [alias |-> alias, core_fields |-> core_fields]

Shunit2TestTarget ==
    TargetClass("shunit2_test",
        COMMON_TARGET_FIELDS \o
        << Shunit2TestSourceField, Shunit2TestDependenciesField,
           Shunit2TestTimeoutField, Shunit2ShellField,
           RuntimePackageDependenciesField >>)

Shunit2TestsGeneratorTarget ==
    TargetClass("shunit2_tests",
        COMMON_TARGET_FIELDS \o
        << Shunit2TestsGeneratorSourcesField, Shunit2TestDependenciesField,
           Shunit2TestTimeoutField, Shunit2ShellField,
           RuntimePackageDependenciesField >>)

ShellSourceTarget ==
    TargetClass("shell_source",
        COMMON_TARGET_FIELDS \o << Dependencies, ShellSourceField >>)

ShellSourcesGeneratorTarget ==
    TargetClass("shell_sources",
        COMMON_TARGET_FIELDS \o << Dependencies, ShellSourcesGeneratingSourcesField >>)

ShellCommand ==
    TargetClass("experimental_shell_command",
        COMMON_TARGET_FIELDS \o
        << Dependencies, ShellCommandCommandField, ShellCommandLogOutputField,
           ShellCommandOutputsField, ShellCommandSourcesField,
           ShellCommandTimeoutField, ShellCommandToolsField >>)

\* ShellCommandRun's fields with the tools field of ShellCommand carried over.
ShellCommandRun_with_tools ==
    TargetClass("experimental_run_shell_command",
        COMMON_TARGET_FIELDS \o
        << Dependencies, ShellCommandCommandField, ShellCommandRunWorkdirField,
           ShellCommandToolsField >>)

ShellCommandRun ==
    TargetClass("experimental_run_shell_command",
        COMMON_TARGET_FIELDS \o
        << Dependencies, ShellCommandCommandField, ShellCommandRunWorkdirField >>)

Aliases(tgt_cls) ==
    { tgt_cls.core_fields[i].alias : i \in 1..Len(tgt_cls.core_fields) }

\* The keyword arguments of a target declaration that were given.
Provided(unhydrated_values) ==
    { a \in DOMAIN unhydrated_values : ~IsNone(unhydrated_values[a]) }

RawValue(unhydrated_values, alias) ==
    IF alias \in DOMAIN unhydrated_values THEN unhydrated_values[alias] ELSE None

\* Target.__init__: an argument that is no field of the class is rejected;
\* then each field of core_fields computes its value, in order, and the first
\* exception ends the construction.
Target_init(tgt_cls, unhydrated_values, address) ==
    LET core     == tgt_cls.core_fields
        unknown  == Provided(unhydrated_values) \ Aliases(tgt_cls)
        computed == [ i \in 1..Len(core) |->
                        compute_value(core[i],
                                      RawValue(unhydrated_values, core[i].alias),
                                      address) ]
        failed   == { i \in 1..Len(core) : computed[i].status = "raised" }
    IN  IF unknown # {}
        THEN LET a == CHOOSE x \in unknown : TRUE
             IN  InvalidFieldException(a, address, unhydrated_values[a])
        ELSE IF failed # {}
        THEN computed[CHOOSE i \in failed : \A j \in failed : i <= j]
        ELSE Ok([ alias   |-> tgt_cls.alias,
                  address |-> address,
                  field_values |->
                    [ a \in Aliases(tgt_cls) |->
                        computed[CHOOSE i \in 1..Len(core) : core[i].alias = a].value ] ])

------------------------------------------------------------------------------
(* Target generation *)

Address(spec_path, target_name, relative_file_path) ==
    [spec_path |-> spec_path, target_name |-> target_name,
     relative_file_path |-> relative_file_path]

\* One glob pattern against one file name: "*" stands for any run of
\* characters other than "/".
RECURSIVE fnmatch(_, _)
fnmatch(name, pat) ==
    IF Len(pat) = 0 THEN Len(name) = 0
    ELSE IF Head(pat) = "*"
         THEN \/ fnmatch(name, Tail(pat))
              \/ Len(name) > 0 /\ Head(name) # "/" /\ fnmatch(Tail(name), pat)
         ELSE Len(name) > 0 /\ Head(name) = Head(pat)
              /\ fnmatch(Tail(name), Tail(pat))

\* A pattern set matches a name that some pattern includes and no "!"
\* pattern excludes.
matches_filespec(patterns, name) ==
    /\ \E i \in 1..Len(patterns) :
          Head(patterns[i]) # "!" /\ fnmatch(name, patterns[i])
    /\ ~ \E i \in 1..Len(patterns) :
          Head(patterns[i]) = "!" /\ fnmatch(name, Tail(patterns[i]))

RECURSIVE Filter(_, _)
Filter(seq, keep) ==
    IF Len(seq) = 0 THEN << >>
    ELSE (IF Head(seq) \in keep THEN << Head(seq) >> ELSE << >>)
           \o Filter(Tail(seq), keep)

\* Get(SourcesPaths, SourcesPathsRequest(sources_field)): the files of the
\* generator's directory that its pattern set matches, and no directories.
SourcesPaths(sources, listing) ==
    [ files |-> IF IsNone(sources) THEN << >>
                ELSE Filter(listing, { f \in Range(listing) :
                                         matches_filespec(Get(sources), f) }),
      dirs  |-> << >> ]

\* generate_file_level_targets: one target of generated_target_cls per path.
\* Its address is the generator's with the path as relative_file_path; it takes
\* the generator's values of the fields its class declares, `sources` replaced
\* by `source`; with
\* add_dependencies_on_all_siblings its dependencies are the generator's
\* followed by the addresses of the other generated targets.
generate_file_level_targets(generated_target_cls, generator, paths, add_dependencies_on_all_siblings) ==
    LET gaddr == generator.address
        all_generated_addresses ==
            [ i \in 1..Len(paths) |->
                Address(gaddr.spec_path, gaddr.target_name, Some(paths[i])) ]
        original_deps ==
            IF IsNone(generator.field_values["dependencies"]) THEN << >>
            ELSE Get(generator.field_values["dependencies"])
        siblings(i) ==
            Filter(all_generated_addresses,
                   Range(all_generated_addresses) \ { all_generated_addresses[i] })
        fields(i) ==
            [ a \in ((DOMAIN generator.field_values \cap Aliases(generated_target_cls))
                       \ {"sources"}) \cup {"source"} |->
                CASE a = "source" -> Some(paths[i])
                  [] a = "dependencies" /\ add_dependencies_on_all_siblings ->
                       Some(original_deps \o siblings(i))
                  [] OTHER -> generator.field_values[a] ]
        built == [ i \in 1..Len(paths) |->
                     Target_init(generated_target_cls, fields(i),
                                 all_generated_addresses[i]) ]
        failed == { i \in 1..Len(paths) : built[i].status = "raised" }
    IN  IF failed # {}
        THEN built[CHOOSE i \in failed : \A j \in failed : i <= j]
        ELSE Ok([ i \in 1..Len(paths) |-> built[i].value ])

\* generate_targets_from_shunit2_tests with the flag passed without `not`.
generate_targets_from_shunit2_tests_flag_unnegated(generator, listing, dependency_inference) ==
    LET paths == SourcesPaths(generator.field_values["sources"], listing) IN
    generate_file_level_targets(Shunit2TestTarget, generator, paths.files,
                                dependency_inference)

\* generate_targets_from_shunit2_tests reading paths.dirs for paths.files.
generate_targets_from_shunit2_tests_dirs(generator, listing, dependency_inference) ==
    LET paths == SourcesPaths(generator.field_values["sources"], listing) IN
    generate_file_level_targets(Shunit2TestTarget, generator, paths.dirs,
                                ~dependency_inference)

\* generate_targets_from_shunit2_tests
generate_targets_from_shunit2_tests(generator, listing, dependency_inference) ==
    LET paths == SourcesPaths(generator.field_values["sources"], listing) IN
    generate_file_level_targets(Shunit2TestTarget, generator, paths.files,
                                ~dependency_inference)

\* generate_targets_from_shell_sources
generate_targets_from_shell_sources(generator, listing, dependency_inference) ==
    LET paths == SourcesPaths(generator.field_values["sources"], listing) IN
    generate_file_level_targets(ShellSourceTarget, generator, paths.files,
                                ~dependency_inference)

------------------------------------------------------------------------------
(* Inputs *)

MaxSpaces == 2

MaxJunk == 3

MaxTimeout == 2

MaxFiles == 3

Spaces(n) == [ i \in 1..n |-> " " ]

Words ==
    { Shunit2Shell[m] : m \in DOMAIN Shunit2Shell }
      \cup { <<"e","n","v">>, <<"f","i","s","h">> }

ShebangDirs ==
    { << >>, <<"/","b","i","n">>, <<"/","u","s","r","/","b","i","n">> }

ShebangArgs ==
    { <<"b","a","s","h">>, <<"z","s","h">>, <<"s","h">>, <<"f","i","s","h">>,
      <<"e","n","v">> }

ShebangRest ==
    { << >>, <<"\n">>, <<"\n","e","c","h","o"," ","h","i","\n">>,
      <<"\r","\n","#","!","/","b","i","n","/","z","s","h">> }

\* The parts of a shebang line: "#!", spaces, directories, "/", the program,
\* and either nothing or spaces and one argument.
ShebangParts ==
    [ lead : 0..1, dir : ShebangDirs, program : Words,
      gap : 0..MaxSpaces, arg : ShebangArgs ]

ShebangLine(p) ==
    <<"#","!">> \o Spaces(p.lead) \o p.dir \o <<"/">> \o p.program
      \o (IF p.gap = 0 THEN << >> ELSE Spaces(p.gap) \o p.arg)

WellFormedShebangs ==
    { ShebangLine(p) \o r : p \in ShebangParts, r \in ShebangRest }

JunkAlphabet == { "#", "!", "/", "s", "h", "\n" }

JunkShebangs ==
    UNION { [ 1..n -> JunkAlphabet ] : n \in 0..MaxJunk }
      \cup { <<"#","!","b","a","s","h">>,
             <<"#","!","/","b","i","n","/",NonAscii>>,
             <<"#","!","/","b","i","n","/","e","n","v"," ",NonAscii>>,
             <<"#","!","/","b","i","n","/","s","h","-","e">>,
             <<"\r","\n","#","!","/","b","i","n","/","s","h">> }

DeclaredAddresses ==
    { Address("src/sh", "a", None), Address("src/sh", "b", None) }

Timeouts ==
    { None } \cup { Some(t) : t \in (-MaxTimeout)..MaxTimeout }
             \cup { Some(ShellCommandTimeoutField_default) }

FileNames ==
    { <<"a",".","s","h">>,
      <<"a","_","t","e","s","t",".","s","h">>,
      <<"t","e","s","t","_","a",".","s","h">>,
      <<"t","e","s","t","s",".","s","h">>,
      <<"a",".","p","y">> }

\* Directory listings: up to MaxFiles distinct file names, in any order.
Listings ==
    UNION { { l \in [ 1..n -> FileNames ] :
                \A i, j \in 1..n : l[i] = l[j] => i = j } : n \in 0..MaxFiles }

ExplicitDependencies == { None, Some(<< Address("src/lib", "util", None) >>) }

ShellCommandArguments ==
    [ command    : { None, Some(""), Some("build.sh") },
      tools      : { None, Some(<< >>), Some(<<"bash", "tar">>) },
      outputs    : { None, Some(<<"out/", "log.txt">>) },
      timeout    : Timeouts,
      workdir    : { None, Some("sub") },
      log_output : { None, Some(TRUE), Some(FALSE) } ]

ShellCommandRunArguments ==
    [ command : { None, Some(""), Some("build.sh") },
      workdir : { None, Some("."), Some("sub") },
      tools   : { None, Some(<<"bash">>) },
      outputs : { None, Some(<<"out/">>) } ]

Shunit2TestArguments ==
    [ source  : { None, Some(<<"a","_","t","e","s","t",".","s","h">>) },
      timeout : Timeouts,
      shell   : { None, Some(<<"b","a","s","h">>), Some(<<"f","i","s","h">>) } ]

Shunit2TestsGeneratorArguments ==
    [ sources      : { None, Some(<< <<"*","_","t","e","s","t",".","s","h">> >>) },
      dependencies : ExplicitDependencies,
      timeout      : Timeouts ]

ShellSourcesGeneratorArguments ==
    [ sources      : { None, Some(<< <<"*",".","s","h">> >>) },
      dependencies : ExplicitDependencies ]

\* The generators a generation request can be about: constructed ones, with
\* no timeout or the largest one.
Generators(tgt_cls, arguments) ==
    { Target_init(tgt_cls, x[1], x[2]).value :
        x \in { y \in arguments \X DeclaredAddresses :
                  /\ Target_init(tgt_cls, y[1], y[2]).status = "ok"
                  /\ RawValue(y[1], "timeout") \in { None, Some(MaxTimeout) } } }

Pending == [status |-> "pending"]

------------------------------------------------------------------------------
(* The state machine: a request is drawn, and the operation it names runs. *)

Init ==
    /\ ret = Pending
    /\ \/ request \in [ kind : {"parse_shebang"},
                        shebang : WellFormedShebangs \cup JunkShebangs ]
       \/ request \in [ kind : {"compute_value"},
                        field : { Shunit2TestTimeoutField.name,
                                  ShellCommandTimeoutField.name },
                        raw_value : Timeouts,
                        address : DeclaredAddresses ]
       \/ request \in [ kind : {"construct"}, target : {ShellCommand.alias},
                        unhydrated_values : ShellCommandArguments,
                        address : DeclaredAddresses ]
       \/ request \in [ kind : {"construct"}, target : {ShellCommandRun.alias},
                        unhydrated_values : ShellCommandRunArguments,
                        address : DeclaredAddresses ]
       \/ request \in [ kind : {"construct"}, target : {Shunit2TestTarget.alias},
                        unhydrated_values : Shunit2TestArguments,
                        address : DeclaredAddresses ]
       \/ request \in [ kind : {"construct"},
                        target : {Shunit2TestsGeneratorTarget.alias},
                        unhydrated_values : Shunit2TestsGeneratorArguments,
                        address : DeclaredAddresses ]
       \/ request \in [ kind : {"construct"},
                        target : {ShellSourcesGeneratorTarget.alias},
                        unhydrated_values : ShellSourcesGeneratorArguments,
                        address : DeclaredAddresses ]
       \/ request \in [ kind : {"generate_shunit2_tests"},
                        generator : Generators(Shunit2TestsGeneratorTarget,
                                               Shunit2TestsGeneratorArguments),
                        listing : Listings,
                        dependency_inference : BOOLEAN ]
       \/ request \in [ kind : {"generate_shell_sources"},
                        generator : Generators(ShellSourcesGeneratorTarget,
                                               ShellSourcesGeneratorArguments),
                        listing : Listings,
                        dependency_inference : BOOLEAN ]

ParseShebang ==
    /\ ret.status = "pending"
    /\ request.kind = "parse_shebang"
    /\ ret' = parse_shebang(request.shebang)
    /\ UNCHANGED request

ComputeShunit2TestTimeout ==
    /\ ret.status = "pending"
    /\ request.kind = "compute_value"
    /\ request.field = Shunit2TestTimeoutField.name
    /\ ret' = Shunit2TestTimeoutField_compute_value(request.raw_value, request.address)
    /\ UNCHANGED request

ComputeShellCommandTimeout ==
    /\ ret.status = "pending"
    /\ request.kind = "compute_value"
    /\ request.field = ShellCommandTimeoutField.name
    /\ ret' = ShellCommandTimeoutField_compute_value(request.raw_value, request.address)
    /\ UNCHANGED request

ConstructShellCommand ==
    /\ ret.status = "pending"
    /\ request.kind = "construct"
    /\ request.target = ShellCommand.alias
    /\ ret' = Target_init(ShellCommand, request.unhydrated_values, request.address)
    /\ UNCHANGED request

ConstructShellCommandRun ==
    /\ ret.status = "pending"
    /\ request.kind = "construct"
    /\ request.target = ShellCommandRun.alias
    /\ ret' = Target_init(ShellCommandRun, request.unhydrated_values, request.address)
    /\ UNCHANGED request

ConstructShunit2TestTarget ==
    /\ ret.status = "pending"
    /\ request.kind = "construct"
    /\ request.target = Shunit2TestTarget.alias
    /\ ret' = Target_init(Shunit2TestTarget, request.unhydrated_values, request.address)
    /\ UNCHANGED request

ConstructShunit2TestsGeneratorTarget ==
    /\ ret.status = "pending"
    /\ request.kind = "construct"
    /\ request.target = Shunit2TestsGeneratorTarget.alias
    /\ ret' = Target_init(Shunit2TestsGeneratorTarget, request.unhydrated_values,
                          request.address)
    /\ UNCHANGED request

ConstructShellSourcesGeneratorTarget ==
    /\ ret.status = "pending"
    /\ request.kind = "construct"
    /\ request.target = ShellSourcesGeneratorTarget.alias
    /\ ret' = Target_init(ShellSourcesGeneratorTarget, request.unhydrated_values,
                          request.address)
    /\ UNCHANGED request

GenerateShunit2Tests ==
    /\ ret.status = "pending"
    /\ request.kind = "generate_shunit2_tests"
    /\ ret' = generate_targets_from_shunit2_tests(
                 request.generator, request.listing, request.dependency_inference)
    /\ UNCHANGED request

GenerateShellSources ==
    /\ ret.status = "pending"
    /\ request.kind = "generate_shell_sources"
    /\ ret' = generate_targets_from_shell_sources(
                 request.generator, request.listing, request.dependency_inference)
    /\ UNCHANGED request

Next ==
    \/ ParseShebang
    \/ ComputeShunit2TestTimeout
    \/ ComputeShellCommandTimeout
    \/ ConstructShellCommand
    \/ ConstructShellCommandRun
    \/ ConstructShunit2TestTarget
    \/ ConstructShunit2TestsGeneratorTarget
    \/ ConstructShellSourcesGeneratorTarget
    \/ GenerateShunit2Tests
    \/ GenerateShellSources

Spec == Init /\ [][Next]_vars

------------------------------------------------------------------------------
(* Properties *)

Done(kind) == request.kind = kind /\ ret.status # "pending"

Constructed(tgt_cls) == Done("construct") /\ request.target = tgt_cls.alias

TimeoutTargets ==
    { Shunit2TestTarget.alias, Shunit2TestsGeneratorTarget.alias, ShellCommand.alias }

RaisedFor(alias, address, value) ==
    /\ ret.status = "raised"
    /\ ret.exc.type = "InvalidFieldException"
    /\ ret.exc.field = alias
    /\ ret.exc.address = address
    /\ ret.exc.value = value

\* C1: both timeout fields return a provided t >= 1 unchanged and, for t <= 0,
\* raise InvalidFieldException naming `timeout`, the target's address and t,
\* producing no value; a target given such a timeout is never constructed, and
\* a constructed target carries the timeout it was given.
C1_TimeoutValidated ==
    /\ (Done("compute_value") /\ ~IsNone(request.raw_value)) =>
          IF Get(request.raw_value) >= 1
          THEN ret = Ok(request.raw_value)
          ELSE RaisedFor("timeout", request.address, request.raw_value)
    /\ (Done("construct") /\ request.target \in TimeoutTargets
          /\ ~IsNone(request.unhydrated_values.timeout)) =>
          /\ Get(request.unhydrated_values.timeout) <= 0 => ret.status = "raised"
          /\ ret.status = "ok" =>
                ret.value.field_values["timeout"] = request.unhydrated_values.timeout
          /\ (ret.status = "raised" /\ ret.exc.field = "timeout") =>
                /\ Get(request.unhydrated_values.timeout) <= 0
                /\ RaisedFor("timeout", request.address,
                             request.unhydrated_values.timeout)

C1_Witness ==
    /\ Done("compute_value")
    /\ request.field = Shunit2TestTimeoutField.name
    /\ request.raw_value = Some(0)
    /\ RaisedFor("timeout", request.address, Some(0))

\* C2 as stated: an absent timeout passes validation and is returned as None
\* by every timeout field.
C2_AbsentIsAlwaysNone ==
    (Done("compute_value") /\ IsNone(request.raw_value)) => ret = Ok(None)

\* C2 amended: an absent timeout passes validation without error; it is
\* returned as None by the field of the test and generator targets and as the
\* declared default 30 by the field of experimental_shell_command.
C2_AbsentPasses ==
    /\ (Done("compute_value") /\ IsNone(request.raw_value)) =>
          IF request.field = ShellCommandTimeoutField.name
          THEN ret = Ok(Some(30))
          ELSE ret = Ok(None)
    /\ (Done("construct") /\ request.target \in TimeoutTargets
          /\ IsNone(request.unhydrated_values.timeout) /\ ret.status = "ok") =>
          ret.value.field_values["timeout"] =
              IF request.target = ShellCommand.alias THEN Some(30) ELSE None
    /\ (Done("construct") /\ request.target \in TimeoutTargets
          /\ IsNone(request.unhydrated_values.timeout) /\ ret.status = "raised") =>
          ret.exc.field # "timeout"

C2_Witness ==
    /\ Done("compute_value")
    /\ request.field = Shunit2TestTimeoutField.name
    /\ IsNone(request.raw_value)
    /\ ret = Ok(None)

BadCommand(u) == IsNone(u.command) \/ u.command = Some("")

BadTools(u) == IsNone(u.tools) \/ u.tools = Some(<< >>)

BadTimeout(u) == ~IsNone(u.timeout) /\ Get(u.timeout) < 1

\* C3: constructing experimental_shell_command fails when `command` is empty
\* or absent and when `tools` is empty or absent; when `tools` is the only
\* offending argument the error cites `tools`; a failure yields no descriptor.
C3_CommandAndToolsRequired ==
    Constructed(ShellCommand) =>
      LET u == request.unhydrated_values IN
      /\ BadCommand(u) => ret.status = "raised"
      /\ BadTools(u) => ret.status = "raised"
      /\ (BadTools(u) /\ ~BadCommand(u) /\ ~BadTimeout(u) /\ IsNone(u.workdir)) =>
            RaisedFor("tools", request.address, u.tools)
      /\ (BadCommand(u) /\ IsNone(u.workdir)) =>
            RaisedFor("command", request.address, u.command)
      /\ ret.status = "raised" => "value" \notin DOMAIN ret

C3_Witness ==
    /\ Constructed(ShellCommand)
    /\ request.unhydrated_values.command = Some("build.sh")
    /\ request.unhydrated_values.tools = Some(<< >>)
    /\ RaisedFor("tools", request.address, Some(<< >>))

\* The input is the line made of the parts p followed by r.
IsShebang(shebang, p, r) ==
    /\ Len(shebang) >= Len(r) + 4
    /\ SubSeq(shebang, Len(shebang) - Len(r) + 1, Len(shebang)) = r
    /\ SubSeq(shebang, 1, Len(shebang) - Len(r)) = ShebangLine(p)

ShebangExpected(p) ==
    LET name == IF p.program = <<"e","n","v">>
                THEN (IF p.gap = 0 THEN << >> ELSE p.arg)
                ELSE p.program
    IN  IF \E m \in DOMAIN Shunit2Shell : Shunit2Shell[m] = name
        THEN Some(CHOOSE m \in DOMAIN Shunit2Shell : Shunit2Shell[m] = name)
        ELSE None

\* C4: for an input whose first line is "#!", optional spaces, optional
\* directories, "/", a program and optionally spaces and one argument,
\* parse_shebang returns the identity the program names, or the one the
\* argument names when the program is `env`; what follows the first line does
\* not change the result.
C4_ShebangIdentity ==
    Done("parse_shebang") =>
      \A p \in ShebangParts :
         (\E r \in ShebangRest : IsShebang(request.shebang, p, r))
            => ret = Ok(ShebangExpected(p))

C4_Witness ==
    /\ Done("parse_shebang")
    /\ request.shebang =
         <<"#","!","/","u","s","r","/","b","i","n","/","e","n","v"," ","z","s","h",
           "\n","e","c","h","o"," ","h","i","\n">>
    /\ ret = Ok(Some("zsh"))

\* C5: parse_shebang never raises and returns one of the six identities or
\* None; it returns None for empty input, for a first line outside the shebang
\* grammar (no "#!" at its start, or no "/" as in "#!bash"), for `env` without
\* an argument and for a program outside the enumeration.
C5_ShebangTotal ==
    Done("parse_shebang") =>
      /\ ret.status = "ok"
      /\ IsNone(ret.value) \/ Get(ret.value) \in {"sh","bash","dash","ksh","pdksh","zsh"}
      /\ Len(request.shebang) = 0 => IsNone(ret.value)
      /\ "/" \notin Range(request.shebang) => IsNone(ret.value)
      /\ (Len(request.shebang) < 2 \/ SubSeq(request.shebang, 1, 2) # <<"#","!">>)
            => IsNone(ret.value)
      /\ \A p \in ShebangParts :
            ( /\ \/ p.program = <<"e","n","v">> /\ p.gap = 0
                 \/ p.program = <<"f","i","s","h">>
              /\ \E r \in ShebangRest : IsShebang(request.shebang, p, r) )
            => IsNone(ret.value)

C5_Witness ==
    /\ Done("parse_shebang")
    /\ request.shebang = <<"#","!","b","a","s","h">>
    /\ ret = Ok(None)

Generated == Done("generate_shunit2_tests") \/ Done("generate_shell_sources")

DependenciesOf(tgt) ==
    IF IsNone(tgt.field_values["dependencies"]) THEN << >>
    ELSE Get(tgt.field_values["dependencies"])

\* C6: with dependency inference off, every target of an expansion depends on
\* every other target of the expansion and not on itself; with it on, a
\* target's dependencies are the generator's own, nothing added.
C6_SiblingMesh ==
    (Generated /\ ret.status = "ok") =>
      LET tgts == ret.value IN
      IF request.dependency_inference
      THEN \A i \in 1..Len(tgts) :
              tgts[i].field_values["dependencies"]
                = request.generator.field_values["dependencies"]
      ELSE \A i, j \in 1..Len(tgts) :
              /\ i # j => tgts[j].address \in Range(DependenciesOf(tgts[i]))
              /\ tgts[i].address \notin Range(DependenciesOf(tgts[i]))
              /\ Range(DependenciesOf(request.generator))
                    \subseteq Range(DependenciesOf(tgts[i]))

C6_Witness ==
    /\ Done("generate_shunit2_tests")
    /\ ~request.dependency_inference
    /\ ret.status = "ok"
    /\ Len(ret.value) = 2
    /\ ret.value[2].address \in Range(DependenciesOf(ret.value[1]))
    /\ ret.value[1].address \in Range(DependenciesOf(ret.value[2]))

Reorderings(seq) ==
    { [ i \in 1..Len(seq) |-> seq[f[i]] ] :
        f \in { g \in [ 1..Len(seq) -> 1..Len(seq) ] :
                  \A i, j \in 1..Len(seq) : g[i] = g[j] => i = j } }

\* A generated target with its dependencies as a set.
TargetAsSet(tgt) ==
    [ address |-> tgt.address, alias |-> tgt.alias,
      dependencies |-> Range(DependenciesOf(tgt)),
      field_values |-> [ a \in DOMAIN tgt.field_values \ {"dependencies"} |->
                           tgt.field_values[a] ] ]

TargetSet(result) ==
    IF result.status = "ok"
    THEN { TargetAsSet(result.value[i]) : i \in 1..Len(result.value) }
    ELSE { }

Expand(kind, generator, listing, dependency_inference) ==
    IF kind = "generate_shunit2_tests"
    THEN generate_targets_from_shunit2_tests(generator, listing, dependency_inference)
    ELSE generate_targets_from_shell_sources(generator, listing, dependency_inference)

\* The files of a listing that a pattern set matches.
Matched(patterns, listing) ==
    { f \in Range(listing) : matches_filespec(patterns, f) }

\* C7: an expansion yields exactly one target per matched file, each at the
\* address made of the generator's address and the file, the addresses
\* pairwise distinct, each with the generator's field values; expanding the
\* same files in any other order yields the same set of targets.
C7_ExpansionDeterministic ==
    Generated =>
      LET gen   == request.generator
          files == Matched(Get(gen.field_values["sources"]), request.listing)
      IN  /\ ret.status = "ok"
          /\ Len(ret.value) = Cardinality(files)
          /\ { ret.value[i].address : i \in 1..Len(ret.value) }
               = { Address(gen.address.spec_path, gen.address.target_name, Some(f)) :
                     f \in files }
          /\ \A i, j \in 1..Len(ret.value) :
                ret.value[i].address = ret.value[j].address => i = j
          /\ \A i \in 1..Len(ret.value) :
                /\ ret.value[i].field_values["source"]
                     = ret.value[i].address.relative_file_path
                /\ \A a \in DOMAIN gen.field_values \ {"sources", "dependencies"} :
                      ret.value[i].field_values[a] = gen.field_values[a]
          /\ \A other \in Reorderings(request.listing) :
                TargetSet(Expand(request.kind, gen, other,
                                 request.dependency_inference))
                  = TargetSet(ret)

C7_Witness ==
    /\ Done("generate_shunit2_tests")
    /\ ret.status = "ok"
    /\ Len(request.listing) = 3
    /\ Len(ret.value) = 2
    /\ ret.value[1].address # ret.value[2].address

ExecOk(u) == ~BadCommand(u) /\ ~BadTools(u)

RoundTrips(u, fields, aliases) ==
    \A a \in aliases : ~IsNone(u[a]) => fields[a] = u[a]

C9_RunNeedsOnlyCommand ==
    Constructed(ShellCommandRun) =>
      LET u == request.unhydrated_values IN
      /\ (~BadCommand(u) /\ IsNone(u.tools) /\ IsNone(u.outputs)) =>
            /\ ret.status = "ok"
            /\ ret.value.field_values["command"] = u.command
            /\ ret.value.field_values["workdir"]
                 = IF IsNone(u.workdir) THEN Some(".") ELSE u.workdir
      /\ ret.status = "ok" =>
            {"tools", "outputs"} \cap DOMAIN ret.value.field_values = { }
      /\ (IsNone(u.command) /\ IsNone(u.tools) /\ IsNone(u.outputs)) =>
            RaisedFor("command", request.address, None)
      /\ BadCommand(u) => ret.status = "raised"

C9_Witness ==
    /\ Constructed(ShellCommandRun)
    /\ request.unhydrated_values
         = [ command |-> Some("build.sh"), workdir |-> None,
             tools |-> None, outputs |-> None ]
    /\ ret.status = "ok"
    /\ ret.value.field_values["workdir"] = Some(".")

Star_sh == <<"*",".","s","h">>

\* C10: a generator declared without `sources` has a non-empty pattern set;
\* that of shell_sources is "*.sh" followed by "!*_test.sh", "!test_*.sh" and
\* "!tests.sh"; a file shell_sources generates under its defaults matches
\* "*.sh", and no file is generated by both generators under their defaults.
C10_DefaultPatternsDisjoint ==
    /\ (Constructed(ShellSourcesGeneratorTarget)
          /\ IsNone(request.unhydrated_values.sources)) =>
          /\ ret.status = "ok"
          /\ ret.value.field_values["sources"]
               = Some(<< Star_sh,
                         <<"!","*","_","t","e","s","t",".","s","h">>,
                         <<"!","t","e","s","t","_","*",".","s","h">>,
                         <<"!","t","e","s","t","s",".","s","h">> >>)
    /\ (Constructed(Shunit2TestsGeneratorTarget)
          /\ IsNone(request.unhydrated_values.sources) /\ ret.status = "ok") =>
          /\ ~IsNone(ret.value.field_values["sources"])
          /\ Len(Get(ret.value.field_values["sources"])) > 0
    /\ (Done("generate_shell_sources") /\ ret.status = "ok"
          /\ Len(Get(request.generator.field_values["sources"])) > 1) =>
          \A i \in 1..Len(ret.value) :
             LET f == Get(ret.value[i].field_values["source"]) IN
             /\ fnmatch(f, Star_sh)
             /\ f \notin Matched(Shunit2TestsGeneratorSourcesField_default,
                                 request.listing)
    /\ (Done("generate_shunit2_tests") /\ ret.status = "ok"
          /\ Len(Get(request.generator.field_values["sources"])) > 1) =>
          \A i \in 1..Len(ret.value) :
             Get(ret.value[i].field_values["source"])
               \notin Matched(ShellSourcesGeneratingSourcesField_default,
                              request.listing)

C10_Witness ==
    /\ Done("generate_shell_sources")
    /\ Len(Get(request.generator.field_values["sources"])) > 1
    /\ request.listing = << <<"t","e","s","t","s",".","s","h">>,
                            <<"a",".","s","h">>,
                            <<"a","_","t","e","s","t",".","s","h">> >>
    /\ ret.status = "ok"
    /\ Len(ret.value) = 1
    /\ ret.value[1].field_values["source"] = Some(<<"a",".","s","h">>)

====
